---- MODULE Spec2Model ----
(***************************************************************************)
(* A model of the Statistics Canada dataset reader:                        *)
(*   - to_wide_format      (src/ocandata/statscan.py, src/canadadata/...)   *)
(*   - StatscanMetadata    (the sentinel-sliced metadata table)             *)
(*   - StatscanUrl         (the filename parser)                            *)
(*   - StatscanZip         (the caching facade)                             *)
(* pandas is modelled as pandas 0.2x behaves: groupby drops rows whose key  *)
(* holds a NaN (ngroup numbers them -1), drop_duplicates treats NaN as      *)
(* equal to NaN, merge is an inner join, Series.item() raises ValueError    *)
(* unless exactly one element is selected.                                  *)
(***************************************************************************)
EXTENDS Integers, Sequences, FiniteSets, TLC

VARIABLES
    tbl,      \* the observation table handed to to_wide_format
    tbl2,     \* the same rows in another order
    res,      \* to_wide_format(tbl)
    res2,     \* to_wide_format(tbl2)
    repo,     \* the files the repository unpacks: [meta, data]
    doc,      \* StatscanMetadata(meta_df) built directly from repo.meta
    self,     \* the attributes of one StatscanZip: metadata, data, units_of_measure
    fetches,  \* the number of calls of repo.unzip so far
    last,     \* the last call on the StatscanZip and its outcome
    urlreq,   \* two dataset URLs that differ in their language tag at most
    url_info  \* StatscanUrl.parse_from_filename of each, once called

wideVars == <<tbl, tbl2, res, res2>>
zipVars == <<repo, doc, self, fetches, last>>
urlVars == <<urlreq, url_info>>
vars == <<tbl, tbl2, res, res2, repo, doc, self, fetches, last, urlreq, url_info>>

(***************************************************************************)
(* Bounds of the model.                                                    *)
(***************************************************************************)
MaxRows == 2
MaxGap == 1
MaxFetches == 3
MaxDataRows == 2
MaxDigits == 2

(***************************************************************************)
(* Values.  A missing value of a text column is NaN; a cell of a numeric    *)
(* column is <<>> when missing and <<v>> otherwise.                         *)
(***************************************************************************)
NaN == "NaN"

\* The pivot dimension of the tables of the model.
PIVOT == "Element"
Null == <<>>
Some(v) == <<v>>

\* The ascending order (Python's str order) of the text values of the model.
SortOrder == <<"0-4", "2019", "Births", "Ottawa", "Persons", "Population", "Toronto">>
Ord(v) == CHOOSE i \in 1..Len(SortOrder) : SortOrder[i] = v

CONTROL_COLS == {"VECTOR", "COORDINATE", "DECIMALS", "STATUS", "SYMBOL",
                 "TERMINATED", "SCALAR_FACTOR", "SCALAR_ID", "DGUID", "UOM",
                 "UOM_ID"}

Range(s) == {s[i] : i \in 1..Len(s)}
Indices(s) == [i \in 1..Len(s) |-> i]
SetMax(S) == CHOOSE m \in S : \A x \in S : x <= m

(***************************************************************************)
(* to_wide_format                                                          *)
(***************************************************************************)
\* group_cols: every column that is no control column, not the pivot
\* column and not VALUE, in the table's column order.
group_cols(columns, pivot_column) ==
    SelectSeq(columns, LAMBDA c : c \notin CONTROL_COLS \cup {pivot_column, "VALUE"})

\* The tuple of a row's values in the group columns.
Key(row, gc) == [i \in 1..Len(gc) |-> row[gc[i]]]

HasNaN(k) == \E i \in 1..Len(k) : k[i] = NaN

\* Lexicographic order of two keys of the same length.
KeyLt(a, b) ==
    \E i \in 1..Len(a) : /\ Ord(a[i]) < Ord(b[i])
                         /\ \A j \in 1..(i - 1) : a[j] = b[j]

\* groupby(group_cols).ngroup(): the rank of the row's key among the sorted
\* distinct keys; a row whose key holds a NaN is in no group and gets -1.
ngroup(rows, gc) ==
    LET valid == {Key(rows[j], gc) : j \in {n \in 1..Len(rows) : ~HasNaN(Key(rows[n], gc))}}
    IN [i \in 1..Len(rows) |->
          IF HasNaN(Key(rows[i], gc)) THEN -1
          ELSE Cardinality({k \in valid : KeyLt(k, Key(rows[i], gc))})]

\* An aggregation that keeps the first VALUE of a pair in row order instead.
AggFirst(rows, idx) == rows[CHOOSE i \in idx : \A j \in idx : i <= j].VALUE

\* aggfunc=np.max over the VALUEs of one (group, pivot value) pair.
aggfunc(rows, idx) == SetMax({rows[i].VALUE : i \in idx})

\* The column labels of the pivoted table: the distinct pivot values, sorted.
pivot_labels(rows, pivot_column) ==
    SelectSeq(SortOrder, LAMBDA v : v \in {rows[i][pivot_column] : i \in 1..Len(rows)} \ {NaN})

\* pivot_table(index="group", columns=pivot_column, values="VALUE",
\* aggfunc=np.max, dropna=False): one row per group number, one column per
\* pivot value; a pair with no row is a missing cell.
pivot_table(rows, grp, pivot_column) ==
    LET used == {i \in 1..Len(rows) : rows[i][pivot_column] # NaN}
        labels == Range(pivot_labels(rows, pivot_column))
    IN [g \in {grp[i] : i \in used} |->
          [p \in labels |->
             LET idx == {i \in used : grp[i] = g /\ rows[i][pivot_column] = p}
             IN IF idx = {} THEN Null ELSE Some(aggfunc(rows, idx))]]

\* A base table that keeps the dimension columns only.
base_dims_only(columns, pivot_column) == group_cols(columns, pivot_column)

\* The columns of base after drop(columns=[pivot_column, "VALUE"]).
base_columns(columns, pivot_column) ==
    SelectSeq(columns, LAMBDA c : c \notin {pivot_column, "VALUE"})

\* drop_duplicates(subset=group_cols): the first row of each key (NaN = NaN).
drop_duplicates(rows, gc) ==
    SelectSeq(Indices(rows),
              LAMBDA i : \A j \in 1..(i - 1) : Key(rows[j], gc) # Key(rows[i], gc))

Failure(e) == [st |-> "err", err |-> e, columns |-> <<>>, rows |-> <<>>]
NotRun == [st |-> "none", err |-> "", columns |-> <<>>, rows |-> <<>>]

to_wide_format(t, pivot_column) ==
    LET gc == group_cols(t.columns, pivot_column)
        rows == t.rows
    IN IF gc = <<>> /\ Len(rows) > 0
       THEN Failure("ValueError")     \* groupby([]): "No group keys passed!"
       ELSE
         LET grp == ngroup(rows, gc)
             values == pivot_table(rows, grp, pivot_column)
             bcols == base_columns(t.columns, pivot_column)
             labels == pivot_labels(rows, pivot_column)
             kept == SelectSeq(drop_duplicates(rows, gc),
                               LAMBDA i : grp[i] \in DOMAIN values)
         IN [st |-> "ok", err |-> "",
             columns |-> bcols \o labels,
             rows |-> [n \in 1..Len(kept) |->
                        [c \in Range(bcols) \cup Range(labels) |->
                           IF c \in Range(bcols) THEN rows[kept[n]][c]
                           ELSE values[grp[kept[n]]][c]]]]

(***************************************************************************)
(* StatscanMetadata: the sections of the metadata table, sliced between    *)
(* the rows whose first column holds a sentinel.  Row positions are         *)
(* pandas positions: the first row of meta_df is row 0.                     *)
(***************************************************************************)
Sentinels == {"Note ID", "Correction ID", "Dimension ID", "Symbol Legend",
              "Survey Code", "Subject Code"}

NRows(df) == Len(df)
RowAt(df, i) == df[i + 1]

\* meta_df[meta_df["Cube Title"] == label].index
locate(df, label) == {i \in 0..(NRows(df) - 1) : RowAt(df, i).c0 = label}

\* A lookup that never raises: a missing label is taken to be at row 0.
index_item_lenient(S) == [raised |-> FALSE, v |-> IF S = {} THEN 0 ELSE SetMax(S)]

\* Index.item(): the one element; ValueError unless there is exactly one.
index_item(S) == [raised |-> Cardinality(S) # 1, v |-> IF S = {} THEN 0 ELSE SetMax(S)]

\* .tail(1).index.item(): the last element; ValueError when there is none.
tail_item(S) == [raised |-> S = {}, v |-> IF S = {} THEN 0 ELSE SetMax(S)]

\* meta_df.iloc[a:b]: the rows at positions a .. b-1 that exist (a, b >= 0).
iloc(df, a, b) ==
    LET hi == IF b < NRows(df) THEN b ELSE NRows(df)
    IN [n \in 1..(IF hi > a THEN hi - a ELSE 0) |->
          [pos |-> a + n - 1, c0 |-> RowAt(df, a + n - 1).c0, c1 |-> RowAt(df, a + n - 1).c1]]

\* The first row of the dimensions section.
DIMENSIONS_START == 2

NoDoc == [st |-> "none", err |-> "", note |-> <<>>, dimensions |-> <<>>,
          dimension_details |-> <<>>, survey |-> <<>>, subject |-> <<>>, name |-> ""]
DocFailure(e) == [NoDoc EXCEPT !.st = "err", !.err = e]

\* StatscanMetadata.__init__(meta_df)
StatscanMetadata(meta_df) ==
    LET note_row == index_item(locate(meta_df, "Note ID"))
        correction_row == index_item(locate(meta_df, "Correction ID"))
        dimension2_row == tail_item(locate(meta_df, "Dimension ID"))
        symbol_row == index_item(locate(meta_df, "Symbol Legend"))
        survey_row == index_item(locate(meta_df, "Survey Code"))
        subject_row == index_item(locate(meta_df, "Subject Code"))
        survey == iloc(meta_df, survey_row.v + 1, survey_row.v + 2)
    IN IF \/ note_row.raised \/ correction_row.raised \/ dimension2_row.raised
          \/ symbol_row.raised \/ survey_row.raised
          \/ Len(survey) # 1          \* self.survey["Survey Name"].item()
          \/ subject_row.raised
       THEN DocFailure("ValueError")
       ELSE [st |-> "ok", err |-> "",
             note |-> iloc(meta_df, note_row.v + 1, correction_row.v),
             dimensions |-> iloc(meta_df, DIMENSIONS_START, dimension2_row.v),
             dimension_details |-> iloc(meta_df, dimension2_row.v + 1, symbol_row.v),
             survey |-> survey,
             subject |-> iloc(meta_df, subject_row.v + 1, subject_row.v + 2),
             name |-> survey[1].c1]

\* StatscanMetadata.pivot_column(): the name of the last dimension;
\* ValueError (item() of nothing) when there is no dimension.
pivot_column(metadata) ==
    IF Len(metadata.dimensions) = 0
    THEN [raised |-> TRUE, v |-> ""]
    ELSE [raised |-> FALSE, v |-> metadata.dimensions[Len(metadata.dimensions)].c1]

(***************************************************************************)
(* The metadata tables of the model: the agency's layout (cube row,         *)
(* dimensions, members, symbol legend, survey, subject, notes,              *)
(* corrections), each section 0..MaxGap rows long, with up to MaxGap rows   *)
(* before the first "Dimension ID" row and with up to two sentinel rows     *)
(* left out.                                                                *)
(***************************************************************************)
RowIds == <<"1", "2", "3", "4">>
DataRows(n, lastName) ==
    [j \in 1..n |-> [c0 |-> RowIds[j], c1 |-> IF j = n THEN lastName ELSE "GEO"]]
SentinelRow(keep, label, header) ==
    IF keep THEN <<[c0 |-> label, c1 |-> header]>> ELSE <<>>

Layout(g, keep) ==
    <<[c0 |-> "Cube", c1 |-> "Product Id"]>>
    \o DataRows(g[1], "blank")
    \o SentinelRow(keep[1], "Dimension ID", "Dimension name")
    \o DataRows(g[2], PIVOT)
    \o SentinelRow(keep[2], "Dimension ID", "Member Name")
    \o DataRows(g[3], "member")
    \o SentinelRow(keep[3], "Symbol Legend", "Description")
    \o DataRows(1, "symbol")
    \o SentinelRow(keep[4], "Survey Code", "Survey Name")
    \o DataRows(g[4], "survey")
    \o SentinelRow(keep[5], "Subject Code", "Subject Name")
    \o DataRows(g[5], "subject")
    \o SentinelRow(keep[6], "Note ID", "Note")
    \o DataRows(g[6], "note")
    \o SentinelRow(keep[7], "Correction ID", "Correction Date")
    \o DataRows(1, "correction")

\* Which sentinel rows the table holds: all, all but one, or no
\* "Dimension ID" row at all.
Keeps == {k \in [1..7 -> BOOLEAN] :
            \/ Cardinality({i \in 1..7 : ~k[i]}) <= 1
            \/ {i \in 1..7 : ~k[i]} = {1, 2}}
MetaTables == {Layout(g, k) : g \in [1..6 -> 0..MaxGap], k \in Keeps}

(***************************************************************************)
(* StatscanZip: the facade that fetches, parses and caches.                *)
(***************************************************************************)
Absent == [st |-> "none", columns |-> <<>>, rows |-> <<>>, index |-> "None"]
NoUnits == [st |-> "none", rows |-> <<>>]
NewZip == [metadata |-> NoDoc, data |-> Absent, units_of_measure |-> NoUnits]

\* repo.unzip(url, resource_id): the two files, or an error of the fetch.
unzip_outcomes == {"files", "FetchError"}

\* pd.to_datetime of a REF_DATE value.
to_datetime(v) ==
    IF v = "2019" THEN "2019-01-01 00:00:00" ELSE v

\* data[[primary_dimension, "UOM"]].drop_duplicates().set_index(..).sort_index()
units_of(rows, primary) ==
    LET first == SelectSeq(Indices(rows),
                   LAMBDA i : \A j \in 1..(i - 1) :
                       <<rows[j][primary], rows[j].UOM>> # <<rows[i][primary], rows[i].UOM>>)
        ordered == SelectSeq(SortOrder, LAMBDA v : \E n \in 1..Len(first) : rows[first[n]][primary] = v)
        at(v) == SelectSeq(first, LAMBDA i : rows[i][primary] = v)
        Flat[n \in 0..Len(ordered)] ==
            IF n = 0 THEN <<>>
            ELSE Flat[n - 1] \o [m \in 1..Len(at(ordered[n])) |->
                                   <<ordered[n], rows[at(ordered[n])[m]].UOM>>]
    IN [st |-> "ok", rows |-> Flat[Len(ordered)]]

Renamed(c) == IF c = "REF_DATE" THEN "Date" ELSE IF c = "GEO" THEN "Geo" ELSE c
Unrenamed(c) == IF c = "Date" THEN "REF_DATE" ELSE IF c = "Geo" THEN "GEO" ELSE c

\* StatscanZip.transform_statscan_data, given the cached metadata.  The
\* result names the units_of_measure attribute the call leaves behind.
transform_statscan_data(metadata, data, wide, index_col, drop_control_cols) ==
    LET primary == pivot_column(metadata)
    IN IF primary.raised
       THEN [st |-> "err", err |-> "ValueError", units |-> NoUnits, frame |-> Absent]
       ELSE IF ~({primary.v, "UOM"} \subseteq Range(data.columns))
       THEN [st |-> "err", err |-> "KeyError", units |-> NoUnits, frame |-> Absent]
       ELSE
         LET units == units_of(data.rows, primary.v)
             w == IF wide THEN to_wide_format(data, primary.v)
                  ELSE [st |-> "ok", err |-> "", columns |-> data.columns, rows |-> data.rows]
         IN IF w.st # "ok"
            THEN [st |-> "err", err |-> w.err, units |-> units, frame |-> Absent]
            ELSE IF index_col # "None" /\ index_col \notin Range(w.columns)
            THEN [st |-> "err", err |-> "KeyError", units |-> units, frame |-> Absent]
            ELSE
              LET c1 == SelectSeq(w.columns, LAMBDA c : c # index_col)
                  c2 == IF drop_control_cols
                        THEN SelectSeq(c1, LAMBDA c : c \notin CONTROL_COLS)
                        ELSE c1
                  dates == /\ "REF_DATE" \in Range(c2)
                           /\ \A n \in 1..Len(w.rows) : w.rows[n].REF_DATE # NaN
                  c3 == [n \in 1..Len(c2) |-> Renamed(c2[n])]
                  fields == Range(c3) \cup (IF index_col = "None" THEN {} ELSE {index_col})
                  cell(r, c) == IF c = "Date" /\ dates THEN to_datetime(r.REF_DATE)
                                ELSE IF c \in Range(c3) THEN r[Unrenamed(c)]
                                ELSE r[c]
              IN [st |-> "ok", err |-> "", units |-> units,
                  frame |-> [st |-> "ok", columns |-> c3, index |-> index_col,
                             rows |-> [n \in 1..Len(w.rows) |->
                                         [c \in fields |-> cell(w.rows[n], c)]]]]

\* StatscanZip.get_metadata(): fetch and parse unless self.metadata is set.
get_metadata(s, meta_file, unzip) ==
    IF s.metadata.st = "ok"
    THEN [self |-> s, calls |-> 0, st |-> "ok", err |-> "", out |-> s.metadata]
    ELSE IF unzip # "files"
    THEN [self |-> s, calls |-> 1, st |-> "err", err |-> unzip, out |-> NoDoc]
    ELSE LET metadata == StatscanMetadata(meta_file)
         IN IF metadata.st = "ok"
            THEN [self |-> [s EXCEPT !.metadata = metadata], calls |-> 1,
                  st |-> "ok", err |-> "", out |-> metadata]
            ELSE [self |-> s, calls |-> 1, st |-> "err", err |-> metadata.err, out |-> NoDoc]

\* StatscanZip.get_data(wide, index_col, drop_control_cols): fetch, parse,
\* read and transform unless self.data is set; return self.data.
get_data_uncached(s, files, unzip, wide, index_col, drop_control_cols) ==
    IF unzip # "files"
    THEN [self |-> s, calls |-> 1, st |-> "err", err |-> unzip, out |-> Absent]
    ELSE LET metadata == StatscanMetadata(files.meta)
         IN IF metadata.st # "ok"
            THEN [self |-> s, calls |-> 1, st |-> "err", err |-> metadata.err, out |-> Absent]
            ELSE LET data_raw == files.data
                     t == transform_statscan_data(metadata, data_raw, wide, index_col,
                                                  drop_control_cols)
                     s1 == [s EXCEPT !.metadata = metadata,
                                     !.units_of_measure =
                                         IF t.units.st = "ok" THEN t.units ELSE @]
                 IN IF t.st # "ok"
                    THEN [self |-> s1, calls |-> 1, st |-> "err", err |-> t.err, out |-> Absent]
                    ELSE [self |-> [s1 EXCEPT !.data = t.frame], calls |-> 1,
                          st |-> "ok", err |-> "", out |-> t.frame]
get_data(s, files, unzip, wide, index_col, drop_control_cols) ==
    IF s.data.st = "ok"
    THEN [self |-> s, calls |-> 0, st |-> "ok", err |-> "", out |-> s.data]
    ELSE get_data_uncached(s, files, unzip, wide, index_col, drop_control_cols)

NoArgs == [wide |-> FALSE, index_col |-> "None", drop_control_cols |-> FALSE]
Args == [wide : BOOLEAN, index_col : {"None", "GEO"}, drop_control_cols : BOOLEAN]

\* One call on the StatscanZip: the attributes it leaves, the calls of
\* repo.unzip it made, and what it returned or raised.
Called(op, args, r) ==
    /\ fetches + r.calls <= MaxFetches
    /\ fetches' = fetches + r.calls
    /\ self' = r.self
    /\ last' = [op |-> op, args |-> args, st |-> r.st, err |-> r.err, out |-> r.out]
    /\ UNCHANGED <<repo, doc>>
    /\ UNCHANGED <<wideVars, urlVars>>

GetMetadata ==
    \E unzip \in unzip_outcomes :
        Called("get_metadata", NoArgs, get_metadata(self, repo.meta, unzip))

\* StatscanZip.dimensions(): get_metadata().dimensions
Dimensions ==
    \E unzip \in unzip_outcomes :
        LET r == get_metadata(self, repo.meta, unzip)
        IN Called("dimensions", NoArgs, [r EXCEPT !.out = r.out.dimensions])

\* StatscanZip.primary_dimension(): get_metadata().pivot_column()
PrimaryDimension ==
    \E unzip \in unzip_outcomes :
        LET r == get_metadata(self, repo.meta, unzip)
            p == pivot_column(r.out)
        IN Called("primary_dimension", NoArgs,
                  IF r.st = "ok" /\ p.raised
                  THEN [r EXCEPT !.st = "err", !.err = "ValueError", !.out = ""]
                  ELSE [r EXCEPT !.out = p.v])

GetData ==
    \E unzip \in unzip_outcomes, a \in Args :
        Called("get_data", a,
               get_data(self, repo, unzip, a.wide, a.index_col, a.drop_control_cols))

\* StatscanZip.get_units_of_measure(): the attribute, if a transform set it.
GetUnitsOfMeasure ==
    Called("get_units_of_measure", NoArgs,
           IF self.units_of_measure.st = "ok"
           THEN [self |-> self, calls |-> 0, st |-> "ok", err |-> "",
                 out |-> self.units_of_measure]
           ELSE [self |-> self, calls |-> 0, st |-> "err", err |-> "AttributeError",
                 out |-> NoUnits])

\* StatscanMetadata(meta_df) on the metadata table, outside any facade.
ParseMetadata ==
    /\ doc.st = "none"
    /\ doc' = StatscanMetadata(repo.meta)
    /\ UNCHANGED <<repo, self, fetches, last>>
    /\ UNCHANGED <<wideVars, urlVars>>

(***************************************************************************)
(* StatscanUrl: a text is the sequence of its characters.                  *)
(***************************************************************************)
DigitChars == {"0", "1", "2", "3", "4", "5", "6", "7", "8", "9"}
\* \w: letters, digits and the underscore.
WordChars ==
    DigitChars \cup {"_"} \cup
    {"a", "b", "c", "d", "e", "f", "g", "h", "i", "j", "k", "l", "m", "n", "o",
     "p", "q", "r", "s", "t", "u", "v", "w", "x", "y", "z", "D", "M"}

StartsWithAt(s, at, pre) ==
    /\ at + Len(pre) - 1 <= Len(s)
    /\ \A i \in 1..Len(pre) : s[at + i - 1] = pre[i]

\* The length of the longest run of characters of set C in s from position at.
RunLength(s, at, C) ==
    IF at > Len(s) THEN 0
    ELSE SetMax({n \in 0..(Len(s) - at + 1) : \A i \in at..(at + n - 1) : s[i] \in C})

\* os.path.basename(url): what follows the last "/".
basename(u) ==
    LET slashes == {i \in 1..Len(u) : u[i] = "/"}
    IN IF slashes = {} THEN u ELSE SubSeq(u, SetMax(slashes) + 1, Len(u))

\* str.index(sub): the offset of the first occurrence of sub.
index(u, sub) ==
    CHOOSE i \in 0..(Len(u) - Len(sub)) :
        /\ StartsWithAt(u, i + 1, sub)
        /\ \A j \in 0..(i - 1) : ~StartsWithAt(u, j + 1, sub)

\* _STATSCAN_DATASET_RE.match(filename): (\d+)(\-(eng|fra))?\.(\w+)+
\* anchored at the start of the filename only.
STATSCAN_DATASET_RE_match(filename) ==
    LET nd == RunLength(filename, 1, DigitChars)
        language == IF StartsWithAt(filename, nd + 1, <<"-", "e", "n", "g">>) THEN <<"e", "n", "g">>
                    ELSE IF StartsWithAt(filename, nd + 1, <<"-", "f", "r", "a">>) THEN <<"f", "r", "a">>
                    ELSE <<>>
        dot == nd + 1 + (IF language = <<>> THEN 0 ELSE 4)
        ne == RunLength(filename, dot + 1, WordChars)
        matched == /\ nd >= 1
                   /\ dot <= Len(filename) /\ filename[dot] = "."
                   /\ ne >= 1
    IN IF ~matched
       THEN [matched |-> FALSE, file |-> <<>>, resourceid |-> <<>>,
             language |-> <<>>, extension |-> <<>>]
       ELSE [matched |-> TRUE,
             file |-> SubSeq(filename, 1, dot + ne),
             resourceid |-> SubSeq(filename, 1, nd),
             language |-> language,
             extension |-> SubSeq(filename, dot + 1, dot + ne)]

NotParsed == [st |-> "none", err |-> "", baseurl |-> <<>>, file |-> <<>>,
              resourceid |-> <<>>, language |-> <<>>, extension |-> <<>>,
              data |-> <<>>, metadata |-> <<>>]

\* StatscanUrl.parse_from_filename(url)
parse_from_filename(u) ==
    LET filename == basename(u)
        baseurl == SubSeq(u, 1, index(u, filename))
        match == STATSCAN_DATASET_RE_match(filename)
    IN IF match.matched
       THEN [st |-> "ok", err |-> "", baseurl |-> baseurl, file |-> match.file,
             resourceid |-> match.resourceid, language |-> match.language,
             extension |-> match.extension,
             data |-> match.resourceid \o <<".", "c", "s", "v">>,
             metadata |-> match.resourceid
                          \o <<"_", "M", "e", "t", "a", "D", "a", "t", "a", ".", "c", "s", "v">>]
       ELSE [NotParsed EXCEPT !.st = "err", !.err = "ValueError"]

\* StatscanUrl.id()
id(info) == info.baseurl \o info.resourceid

(***************************************************************************)
(* The URLs of the model: a directory, a file stem (a resource id of up to *)
(* MaxDigits digits, or a name that is no number), a language tag, an       *)
(* extension.  The directory may itself be named like a dataset file.       *)
(***************************************************************************)
Stems == {SubSeq(<<"1", "2", "3", "4">>, 1, n) : n \in 1..MaxDigits} \cup {<<"x">>, <<"x", "1">>}
LanguageTags == {<<>>, <<"-", "e", "n", "g">>, <<"-", "f", "r", "a">>, <<"-", "d", "e", "u">>}
Extensions == {<<".", "z", "i", "p">>, <<".", "c", "s", "v">>, <<>>}
Directories == {<<>>, <<"h", "/">>, <<"h", "/", "1", ".", "z", "i", "p", "/">>,
                <<"h", "/", "1", "-", "e", "n", "g", ".", "z", "i", "p", "/">>}

UrlOf(r, i) == r.dir \o r.stem \o r.lang[i] \o r.ext

UrlIdle ==
    /\ urlreq = [dir |-> <<>>, stem |-> <<>>, lang |-> <<<<>>, <<>>>>, ext |-> <<>>]
    /\ url_info = <<NotParsed, NotParsed>>

UrlInit ==
    /\ tbl = [columns |-> <<>>, rows |-> <<>>]
    /\ tbl2 = tbl
    /\ res = NotRun
    /\ res2 = NotRun
    /\ repo = [meta |-> <<>>, data |-> [columns |-> <<>>, rows |-> <<>>]]
    /\ doc = NoDoc
    /\ self = NewZip
    /\ fetches = 0
    /\ last = [op |-> "new", args |-> NoArgs, st |-> "ok", err |-> "", out |-> ""]
    /\ urlreq \in [dir : Directories, stem : Stems,
                   lang : LanguageTags \X LanguageTags, ext : Extensions]
    /\ url_info = <<NotParsed, NotParsed>>

ParseFromFilename(i) ==
    /\ url_info[i].st = "none"
    /\ url_info' = [url_info EXCEPT ![i] = parse_from_filename(UrlOf(urlreq, i))]
    /\ UNCHANGED urlreq
    /\ UNCHANGED <<wideVars, zipVars>>

(***************************************************************************)
(* The observation tables of the model.                                    *)
(***************************************************************************)
Schemas == {<<"GEO", "Age group", "Element", "VALUE">>,
            <<"GEO", "UOM", "Age group", "Element", "VALUE">>,
            <<"UOM", "Element", "VALUE">>}

\* The rows of a table with the given columns: text columns may hold NaN
\* where the agency leaves a dimension blank.
RowsOf(columns) ==
    {[c \in Range(columns) |->
        CASE c = "GEO" -> g
          [] c = "Age group" -> a
          [] c = "UOM" -> "Persons"
          [] c = "Element" -> e
          [] c = "VALUE" -> v] :
      g \in {"Toronto", "Ottawa"}, a \in {"0-4", NaN},
      e \in {"Births", "Population"}, v \in {3, 7}}

Tables ==
    UNION {{[columns |-> s, rows |-> r] :
              r \in UNION {[1..n -> RowsOf(s)] : n \in 1..MaxRows}} : s \in Schemas}

\* A reordering of a table's rows.
RowOrders(n) == {p \in [1..n -> 1..n] : \A i, j \in 1..n : p[i] = p[j] => i = j}
Reordered(t, p) == [columns |-> t.columns, rows |-> [i \in 1..Len(t.rows) |-> t.rows[p[i]]]]

NewCall == [op |-> "new", args |-> NoArgs, st |-> "ok", err |-> "", out |-> ""]
NoFiles == [meta |-> <<>>, data |-> [columns |-> <<>>, rows |-> <<>>]]
ZipIdle ==
    /\ repo = NoFiles
    /\ doc = NoDoc
    /\ self = NewZip
    /\ fetches = 0
    /\ last = NewCall

WideInit ==
    /\ tbl \in Tables
    /\ tbl2 = tbl
    /\ res = NotRun
    /\ res2 = NotRun
    /\ ZipIdle
    /\ UrlIdle

\* to_wide_format(statscan_data, pivot_column) on the table.
ToWide ==
    /\ res.st = "none"
    /\ res' = to_wide_format(tbl, PIVOT)
    /\ UNCHANGED <<tbl, tbl2, res2>>
    /\ UNCHANGED <<zipVars, urlVars>>

\* to_wide_format on the same rows in another order.
ToWideReordered ==
    /\ res.st # "none"
    /\ res2.st = "none"
    /\ \E p \in RowOrders(Len(tbl.rows)) :
          /\ tbl2' = Reordered(tbl, p)
          /\ res2' = to_wide_format(tbl2', PIVOT)
    /\ UNCHANGED <<tbl, res>>
    /\ UNCHANGED <<zipVars, urlVars>>

WideNext == ToWide \/ ToWideReordered

SpecWide == WideInit /\ [][WideNext]_vars

(***************************************************************************)
(* The metadata parser on every metadata table of the model, directly and  *)
(* through get_metadata().                                                  *)
(***************************************************************************)
WideIdle ==
    /\ tbl = [columns |-> <<>>, rows |-> <<>>]
    /\ tbl2 = tbl
    /\ res = NotRun
    /\ res2 = NotRun

\* The observation tables the repository serves: the agency's columns.
ZipColumns == <<"REF_DATE", "GEO", "UOM", "Element", "VALUE">>
ZipRows ==
    {[c \in Range(ZipColumns) |->
        CASE c = "REF_DATE" -> "2019"
          [] c = "GEO" -> g
          [] c = "UOM" -> "Persons"
          [] c = "Element" -> e
          [] c = "VALUE" -> v] :
      g \in {"Toronto", "Ottawa"}, e \in {"Births", "Population"}, v \in {7}}
ZipTables ==
    {[columns |-> ZipColumns, rows |-> r] :
        r \in UNION {[1..n -> ZipRows] : n \in 1..MaxDataRows}}
ExampleTable ==
    [columns |-> ZipColumns,
     rows |-> <<[REF_DATE |-> "2019", GEO |-> "Toronto", UOM |-> "Persons",
                 Element |-> "Population", VALUE |-> 7]>>]

MetaInit ==
    /\ WideIdle
    /\ UrlIdle
    /\ repo \in [meta : MetaTables, data : {ExampleTable}]
    /\ doc = NoDoc
    /\ self = NewZip
    /\ fetches = 0
    /\ last = NewCall

MetaNext == ParseMetadata \/ GetMetadata

SpecMeta == MetaInit /\ [][MetaNext]_vars

(***************************************************************************)
(* One StatscanZip and the calls on it.                                     *)
(***************************************************************************)
\* The agency's layout with one row per section, with or without
\* dimensions, with at most one sentinel row left out.
ZipMetas ==
    {Layout(g, k) : g \in {[i \in 1..6 |-> IF i = 1 THEN 0 ELSE 1],
                            [i \in 1..6 |-> IF i <= 2 THEN 0 ELSE 1]},
                    k \in {k \in Keeps : Cardinality({i \in 1..7 : ~k[i]}) <= 1}}

ZipInit ==
    /\ WideIdle
    /\ UrlIdle
    /\ repo \in [meta : ZipMetas, data : ZipTables]
    /\ doc = NoDoc
    /\ self = NewZip
    /\ fetches = 0
    /\ last = NewCall

ZipNext ==
    \/ GetMetadata
    \/ Dimensions
    \/ PrimaryDimension
    \/ GetData
    \/ GetUnitsOfMeasure

SpecZip == ZipInit /\ [][ZipNext]_vars

(***************************************************************************)
(* The filename parser on two URLs.                                         *)
(***************************************************************************)
UrlNext == \E i \in 1..2 : ParseFromFilename(i)

SpecUrl == UrlInit /\ [][UrlNext]_vars

(***************************************************************************)
(* Properties of to_wide_format.                                           *)
(***************************************************************************)
InKeys(t) ==
    LET gc == group_cols(t.columns, PIVOT)
    IN {Key(t.rows[i], gc) : i \in 1..Len(t.rows)}
OutKeys(t, r) ==
    LET gc == group_cols(t.columns, PIVOT)
    IN {Key(r.rows[n], gc) : n \in 1..Len(r.rows)}
InPivots(t) == {t.rows[i][PIVOT] : i \in 1..Len(t.rows)}
\* The VALUEs of the input rows with a given group key and pivot value.
InValues(t, k, p) ==
    LET gc == group_cols(t.columns, PIVOT)
    IN {t.rows[i].VALUE : i \in {j \in 1..Len(t.rows) :
                                  Key(t.rows[j], gc) = k /\ t.rows[j][PIVOT] = p}}
\* The (group key, pivot value, cell) entries of a wide table.
Cells(t, r) ==
    LET gc == group_cols(t.columns, PIVOT)
        pv == Range(r.columns) \ Range(t.columns)
    IN {<<Key(r.rows[n], gc), p, r.rows[n][p]>> : n \in 1..Len(r.rows), p \in pv}

\* C1: to_wide has exactly one row per distinct group key of the input
\* (missing markers equal to each other): no key twice, no key absent.
C1_RowPerGroupKey ==
    res.st # "none" =>
        /\ res.st = "ok"
        /\ OutKeys(tbl, res) = InKeys(tbl)
        /\ Len(res.rows) = Cardinality(InKeys(tbl))

\* C2: every pivot value of the input is a column of every output row, and
\* the cell of a group key that has no input row with that pivot value is
\* the missing marker, the row of that group being present.
C2_ColumnCompleteness ==
    res.st = "ok" =>
        /\ InPivots(tbl) \subseteq Range(res.columns)
        /\ InKeys(tbl) \subseteq OutKeys(tbl, res)
        /\ \A n \in 1..Len(res.rows) : \A p \in InPivots(tbl) :
              /\ p \in DOMAIN res.rows[n]
              /\ InValues(tbl, Key(res.rows[n], group_cols(tbl.columns, PIVOT)), p) = {}
                    => res.rows[n][p] = Null

\* C3: the cell at (group key, pivot value) is the maximum of the VALUEs of
\* the input rows with that key and pivot value (the VALUE itself when
\* there is exactly one such row).
C3_MaxAggregation ==
    res.st = "ok" =>
        \A n \in 1..Len(res.rows) : \A p \in InPivots(tbl) :
            LET vs == InValues(tbl, Key(res.rows[n], group_cols(tbl.columns, PIVOT)), p)
            IN vs # {} => res.rows[n][p] = Some(SetMax(vs))

\* C4: a reordering of the input rows gives a wide table with the same set
\* of (group key, pivot value, cell) entries.
C4_ReorderInvariant ==
    (res.st # "none" /\ res2.st # "none") =>
        /\ res2.st = res.st
        /\ Cells(tbl2, res2) = Cells(tbl, res)

\* Both wide tables of a table whose two rows, given in either order, share
\* a group key and a pivot value and differ in VALUE.
C4_Witness ==
    /\ res.st = "ok" /\ res2.st = "ok"
    /\ tbl2 # tbl
    /\ \E k \in InKeys(tbl), p \in InPivots(tbl) : Cardinality(InValues(tbl, k, p)) = 2

IsSortedSeq(s) == \A i \in 1..(Len(s) - 1) : Ord(s[i]) < Ord(s[i + 1])

\* C5 as stated: the output columns are the dimension columns, in their
\* original order, followed by the pivot values in sorted order.
C5_DimsThenPivots ==
    res.st = "ok" =>
        LET gc == group_cols(tbl.columns, PIVOT)
            rest == SubSeq(res.columns, Len(gc) + 1, Len(res.columns))
        IN /\ Len(res.columns) = Len(gc) + Cardinality(InPivots(tbl))
           /\ SubSeq(res.columns, 1, Len(gc)) = gc
           /\ Range(rest) = InPivots(tbl)
           /\ IsSortedSeq(rest)

\* C5 amended: the output columns are the input's columns other than the
\* pivot column and VALUE (dimension and control columns alike), in their
\* original order, followed by the pivot values in sorted order.
C5_KeptColumnsThenPivots ==
    res.st = "ok" =>
        LET kept == SelectSeq(tbl.columns, LAMBDA c : c # PIVOT /\ c # "VALUE")
            ctl == SelectSeq(tbl.columns, LAMBDA c : c \in CONTROL_COLS)
            gc == group_cols(tbl.columns, PIVOT)
            rest == SubSeq(res.columns, Len(kept) + 1, Len(res.columns))
        IN /\ Len(res.columns) = Len(gc) + Len(ctl) + Cardinality(InPivots(tbl))
           /\ SubSeq(res.columns, 1, Len(kept)) = kept
           /\ Range(rest) = InPivots(tbl)
           /\ IsSortedSeq(rest)

\* A wide table made from a table with a control column and two pivot values.
C5_Witness ==
    /\ res.st = "ok"
    /\ "UOM" \in Range(tbl.columns)
    /\ "UOM" \in Range(res.columns)
    /\ Cardinality(InPivots(tbl)) = 2

(***************************************************************************)
(* Properties of the metadata parser and of the facade.                    *)
(***************************************************************************)
Positions(section) == {section[n].pos : n \in 1..Len(section)}
Between(df, a, b) == {i \in 0..(NRows(df) - 1) : a < i /\ i < b}
SetMin(S) == CHOOSE m \in S : \A x \in S : m <= x
IsSentinelAt(df, i) == i < NRows(df) /\ RowAt(df, i).c0 \in Sentinels

\* Every sentinel occurs, "Dimension ID" twice, and the rows right after
\* "Survey Code" and "Subject Code" exist and are no sentinel rows.
SentinelsInPlace(df) ==
    /\ \A s \in Sentinels \ {"Dimension ID"} : Cardinality(locate(df, s)) = 1
    /\ Cardinality(locate(df, "Dimension ID")) = 2
    /\ \A s \in {"Survey Code", "Subject Code"} :
          LET after == SetMax(locate(df, s)) + 1
          IN after < NRows(df) /\ ~IsSentinelAt(df, after)

\* C6: each section holds exactly the rows strictly between its sentinels
\* (dimensions: between the first and the last "Dimension ID"), or the one
\* row after its sentinel, and no sentinel row, wherever the sentinels are.
C6_SectionsBetweenSentinels ==
    (doc.st # "none" /\ SentinelsInPlace(repo.meta)) =>
        LET df == repo.meta
            at(s) == SetMax(locate(df, s))
            sections == <<doc.note, doc.dimensions, doc.dimension_details,
                          doc.survey, doc.subject>>
        IN /\ doc.st = "ok"
           /\ Positions(doc.note) = Between(df, at("Note ID"), at("Correction ID"))
           /\ Positions(doc.dimensions) =
                 Between(df, SetMin(locate(df, "Dimension ID")), at("Dimension ID"))
           /\ Positions(doc.dimension_details) =
                 Between(df, at("Dimension ID"), at("Symbol Legend"))
           /\ Positions(doc.survey) = {at("Survey Code") + 1}
           /\ Positions(doc.subject) = {at("Subject Code") + 1}
           /\ \A n \in 1..5 : \A m \in 1..Len(sections[n]) :
                 sections[n][m].c0 \notin Sentinels

MissingSentinel(df) == \E s \in Sentinels : locate(df, s) = {}

\* C7: a metadata table that lacks a required sentinel makes the parser
\* raise (the parser's error, the source's ValueError, is the spec's
\* MetadataFormatError); get_metadata() then returns no document and
\* leaves no metadata cached.
C7_MissingSentinelFails ==
    MissingSentinel(repo.meta) =>
        /\ doc.st # "none" => doc = DocFailure("ValueError")
        /\ self.metadata = NoDoc
        /\ last.op = "get_metadata" =>
              /\ last.st = "err"
              /\ last.out = NoDoc
              /\ last.err # "FetchError" => last.err = "ValueError"

\* get_metadata() and the parser have both failed on a table without its
\* "Survey Code" row, the fetch having succeeded.
C7_Witness ==
    /\ locate(repo.meta, "Survey Code") = {}
    /\ \A s \in Sentinels \ {"Survey Code"} : locate(repo.meta, s) # {}
    /\ doc.st = "err"
    /\ last.op = "get_metadata" /\ last.st = "err" /\ last.err = "ValueError"
    /\ self.metadata = NoDoc

\* C8: a get_data call returns the table derived from the raw parse under
\* the parameters of that call, also when an earlier call cached a table.
C8_LaterParametersApply ==
    (last.op = "get_data" /\ last.st = "ok") =>
        LET t == transform_statscan_data(self.metadata, repo.data, last.args.wide,
                                         last.args.index_col, last.args.drop_control_cols)
        IN t.st = "ok" => last.out = t.frame

\* C9: once a fetch has succeeded and its result is cached, no later call
\* on the instance invokes the fetch collaborator again.
C9_FetchOnlyOnce ==
    [][(self.metadata.st = "ok" \/ self.data.st = "ok") => fetches' = fetches]_vars

(***************************************************************************)
(* Properties of the filename parser.                                       *)
(***************************************************************************)
IsNumber(stem) == stem # <<>> /\ \A i \in 1..Len(stem) : stem[i] \in DigitChars
StatscanLanguages == {<<>>, <<"-", "e", "n", "g">>, <<"-", "f", "r", "a">>}
\* The filename is <digits>[-eng|-fra].<ext>.
DatasetName(r, i) ==
    IsNumber(r.stem) /\ r.lang[i] \in StatscanLanguages /\ r.ext # <<>>

\* C10: a URL whose filename is <digits>[-<lang>].<ext> parses to
\* data = <digits>.csv, metadata = <digits>_MetaData.csv and
\* id() = base URL + <digits>, so that the ids of two URLs that differ in
\* the language tag only are equal; a filename that does not start with a
\* number fails to parse.
C10_UrlIdentity ==
    /\ \A i \in 1..2 : url_info[i].st # "none" =>
          /\ DatasetName(urlreq, i) =>
                /\ url_info[i].st = "ok"
                /\ url_info[i].data = urlreq.stem \o <<".", "c", "s", "v">>
                /\ url_info[i].metadata = urlreq.stem
                      \o <<"_", "M", "e", "t", "a", "D", "a", "t", "a", ".", "c", "s", "v">>
                /\ url_info[i].resourceid = urlreq.stem
                /\ id(url_info[i]) = url_info[i].baseurl \o urlreq.stem
          /\ (urlreq.stem = <<>> \/ urlreq.stem[1] \notin DigitChars) =>
                url_info[i] = [NotParsed EXCEPT !.st = "err", !.err = "ValueError"]
    /\ (url_info[1].st = "ok" /\ url_info[2].st = "ok"
          /\ DatasetName(urlreq, 1) /\ DatasetName(urlreq, 2)) =>
            id(url_info[1]) = id(url_info[2])

====
